---------------------------- MODULE Spec2Model ----------------------------
(***************************************************************************)
(* Model of bot/exts/evergreen/avatar_modification/avatar_modify.py:       *)
(* the AvatarModify cog.  One command invocation is followed from the      *)
(* moment the framework calls the handler until the handler returns or     *)
(* raises.  Every await of the handler is a step boundary; what the        *)
(* platform, the HTTP session, the delegated command and the worker        *)
(* answer is chosen at the step that awaits it.                            *)
(*                                                                         *)
(* Text that is processed character by character (file names, option       *)
(* names) is a sequence of one-character strings; a non-ASCII character    *)
(* is written by its code point ("U+00E9").  Message texts that the code   *)
(* only passes along are plain strings.                                    *)
(***************************************************************************)
EXTENDS Integers, Sequences, FiniteSets, TLC

(***************************************************************************)
(* Bounds of the model.                                                    *)
(***************************************************************************)
MaxNameLen == 2      \* longest display name
MaxColours == 2      \* longest colour list given to easterify
MaxBodyLen == 1      \* longest image body read from the CDN or a URL

(***************************************************************************)
(* Python values.  Every value is a record tagged by its type, so that     *)
(* isinstance and truthiness are decided on the tag.                       *)
(***************************************************************************)
None == [t |-> "None"]
PyStr(s) == [t |-> "str", s |-> s]
Image(cols) == [t |-> "Image", colours |-> cols]
File(name) == [t |-> "File", filename |-> name]
MessageObj == [t |-> "Message"]
Exc(cls, msg) == [t |-> "exc", cls |-> cls, msg |-> msg]

\* isinstance(v, str)
IsStr(v) == v.t = "str"

(***************************************************************************)
(* Characters.                                                             *)
(***************************************************************************)
AsciiLower == {"a","b","c","d","e","f","g","h","i","j","k","l","m",
               "n","o","p","q","r","s","t","u","v","w","x","y","z"}
AsciiUpper == {"A","B","C","D","E","F","G","H","I","J","K","L","M",
               "N","O","P","Q","R","S","T","U","V","W","X","Y","Z"}
\* string.ascii_letters
AsciiLetters == AsciiLower \cup AsciiUpper
\* string.digits
Digits == {"0","1","2","3","4","5","6","7","8","9"}
\* the ASCII characters the model uses that are neither letters nor digits
AsciiOther == {" ", "-", "_", ".", "!", "/"}
AsciiChars == AsciiLetters \cup Digits \cup AsciiOther

\* U+00E9 e with acute, U+0301 combining acute, U+65E5 a CJK ideograph,
\* U+00A0 no-break space, U+FB01 the fi ligature
NonAsciiChars == {"U+00E9", "U+0301", "U+65E5", "U+00A0", "U+FB01"}

\* the characters display names are drawn from
NameChars == {"a", "Z", "7", " ", ".", "-", "!", "U+00E9", "U+65E5", "U+00A0"}

DisplayNames == UNION {[1..n -> NameChars] : n \in 0..MaxNameLen}

(***************************************************************************)
(* Sequence helpers.                                                       *)
(***************************************************************************)
RECURSIVE Flatten(_)
Flatten(ss) == IF ss = <<>> THEN <<>> ELSE Head(ss) \o Flatten(Tail(ss))

\* "".join(c for c in s if keep(c))
Keep(s, chars) == SelectSeq(s, LAMBDA c : c \in chars)

(***************************************************************************)
(* file_safe_name                                                          *)
(***************************************************************************)
\* FILENAME_STRING = "{effect}_{author}.png"
FILENAME_STRING(effect, author) == effect \o <<"_">> \o author \o <<".", "p", "n", "g">>

\* valid_filename_chars = f"-_. {string.ascii_letters}{string.digits}"
valid_filename_chars == {"-", "_", ".", " "} \cup AsciiLetters \cup Digits

\* the replacement with a dash in place of the underscore
ReplaceSpaces_Dash(s) == [i \in 1..Len(s) |-> IF s[i] = " " THEN "-" ELSE s[i]]

\* str.replace(" ", "_")
ReplaceSpaces(s) == [i \in 1..Len(s) |-> IF s[i] = " " THEN "_" ELSE s[i]]

\* unicodedata.normalize("NFKD", c) of one character: the compatibility
\* decomposition of the Unicode character database
NFKDChar(c) ==
    CASE c = "U+00E9" -> <<"e", "U+0301">>
      [] c = "U+00A0" -> <<" ">>
      [] c = "U+FB01" -> <<"f", "i">>
      [] OTHER -> <<c>>

\* unicodedata.normalize("NFKD", s)
NFKD(s) == Flatten([i \in 1..Len(s) |-> NFKDChar(s[i])])

\* s.encode("ASCII", "ignore").decode()
EncodeAsciiIgnore(s) == Keep(s, AsciiChars)

file_safe_name(effect, display_name) ==
    LET file_name == FILENAME_STRING(effect, display_name)
        replaced == ReplaceSpaces(file_name)
        cleaned_filename == EncodeAsciiIgnore(NFKD(replaced))
    IN  Keep(cleaned_filename, valid_filename_chars)

\* the effect tags the commands pass to file_safe_name
EightbitTag == <<"e","i","g","h","t","b","i","t","_","a","v","a","t","a","r">>
EasterTag == <<"e","a","s","t","e","r","i","f","i","e","d","_","a","v","a","t","a","r">>
PrideTag == <<"p","r","i","d","e","_","a","v","a","t","a","r">>
SpookyTag == <<"s","p","o","o","k","y","_","a","v","a","t","a","r">>


(***************************************************************************)
(* Module-level constants and option handling.                             *)
(***************************************************************************)
\* the upper limit of the border thickness, min(512, pixels)
MaxPixels == 512

\* response.status != 200
HttpOk == 200

\* GENDER_OPTIONS = json.load(f): option name -> flag.  Three entries of
\* the resource stand for the whole mapping.
GENDER_OPTIONS ==
    (<<"l","g","b","t">> :> "gay") @@
    (<<"g","a","y">> :> "gay") @@
    (<<"t","r","a","n","s">> :> "transgender")

\* GENDER_OPTIONS.get(option)
DictGet(d, k) == IF k \in DOMAIN d THEN PyStr(d[k]) ELSE None

UpperSeq == <<"A","B","C","D","E","F","G","H","I","J","K","L","M",
              "N","O","P","Q","R","S","T","U","V","W","X","Y","Z">>
LowerSeq == <<"a","b","c","d","e","f","g","h","i","j","k","l","m",
              "n","o","p","q","r","s","t","u","v","w","x","y","z">>
LowerChar(c) ==
    IF c \in AsciiUpper
    THEN LowerSeq[CHOOSE i \in 1..Len(UpperSeq) : UpperSeq[i] = c]
    ELSE c
\* option.lower()
Lower(s) == [i \in 1..Len(s) |-> LowerChar(s[i])]

Min(a, b) == IF a <= b THEN a ELSE b
Max(a, b) == IF a >= b THEN a ELSE b
\* the clamp without its lower limit
ClampPixels_NoFloor(p) == Min(MaxPixels, p)

\* pixels = max(0, min(512, pixels))
ClampPixels(p) == Max(0, Min(MaxPixels, p))

(***************************************************************************)
(* Inputs of the commands.                                                 *)
(***************************************************************************)
ColourTokens == {"red", "notacolour"}
ColourLists == UNION {[1..n -> ColourTokens] : n \in 0..MaxColours}

Options == { <<"l","g","b","t">>, <<"L","G","B","T">>, <<"T","r","a","n","s">>,
             <<"n","o","t","_","a","_","f","l","a","g">> }

PixelInputs == {-10, 0, 64, 512, 513, 9999}

Urls == {"https://example.org/a.png", "not a url"}
\* what the HTTP client accepts as a URL
WellFormed(u) == u = "https://example.org/a.png"

Bodies == UNION {[1..n -> {0}] : n \in 0..MaxBodyLen}

\* the member a spooky command may name instead of the invoker
OtherMember == [t |-> "Member", id |-> 2, display_name |-> <<"U+00E9", " ", "Z">>]
Author(name) == [t |-> "Member", id |-> 1, display_name |-> name]

(***************************************************************************)
(* Exceptions.  Bases(c) is c with its base classes.                       *)
(***************************************************************************)
Bases(c) ==
    CASE c = "NotFound" -> {"NotFound", "HTTPException"}
      [] c = "Forbidden" -> {"Forbidden", "HTTPException"}
      [] OTHER -> {c}
IsInstance(e, cls) == cls \in Bases(e.cls)

\* what the platform answers to fetch_member: the member, or a fault.  A
\* connection-level fault (OSError) is no discord.HTTPException.
FetchFaults == {"NotFound", "Forbidden", "HTTPException", "OSError"}
FetchAnswers(user) == {user} \cup {Exc(c, "fetch_member") : c \in FetchFaults}

(***************************************************************************)
(* _fetch_member: the value returned, the fault raised, the records        *)
(* logged.  log.exception logs at ERROR level.                             *)
(***************************************************************************)
\* _fetch_member with the two except clauses in the other order
_fetch_member_HttpFirst(answer) ==
    IF answer.t = "Member"
    THEN [ret |-> answer, raised |-> None, log |-> <<>>]
    ELSE IF IsInstance(answer, "HTTPException")
    THEN [ret |-> None, raised |-> None,
          log |-> <<[level |-> "ERROR", msg |-> "exception while retrieving"]>>]
    ELSE IF IsInstance(answer, "NotFound")
    THEN [ret |-> None, raised |-> None,
          log |-> <<[level |-> "DEBUG", msg |-> "left the guild"]>>]
    ELSE [ret |-> None, raised |-> answer, log |-> <<>>]

\* _fetch_member without the `except discord.HTTPException` clause
_fetch_member_OnlyNotFound(answer) ==
    IF answer.t = "Member"
    THEN [ret |-> answer, raised |-> None, log |-> <<>>]
    ELSE IF IsInstance(answer, "NotFound")
    THEN [ret |-> None, raised |-> None,
          log |-> <<[level |-> "DEBUG", msg |-> "left the guild"]>>]
    ELSE [ret |-> None, raised |-> answer, log |-> <<>>]

_fetch_member(answer) ==
    IF answer.t = "Member"
    THEN [ret |-> answer, raised |-> None, log |-> <<>>]
    ELSE IF IsInstance(answer, "NotFound")
    THEN [ret |-> None, raised |-> None,
          log |-> <<[level |-> "DEBUG", msg |-> "left the guild"]>>]
    ELSE IF IsInstance(answer, "HTTPException")
    THEN [ret |-> None, raised |-> None,
          log |-> <<[level |-> "ERROR", msg |-> "exception while retrieving"]>>]
    ELSE [ret |-> None, raised |-> answer, log |-> <<>>]

(***************************************************************************)
(* The state of one command invocation.                                    *)
(***************************************************************************)
VARIABLES
    pc,             \* position of the handler
    ret_pc,         \* where the handler resumes after in_executor
    cmd,            \* the command invoked
    outcome,        \* "running", "returned" or "raised"
    exc,            \* the fault the handler raised, or None
    author,         \* ctx.author
    colours,        \* argument of avatareasterify
    option,         \* argument / local of prideavatar and image
    pixels,         \* argument / local of prideavatar and image
    url,            \* argument of image
    target,         \* argument `member` of spookyavatar
    ctx_send,       \* what ctx.send is bound to: "Context.send" or "send"
    send_message,   \* local of avatareasterify: the saved ctx.send
    member,         \* local: the fetched member
    egg,            \* local of avatareasterify
    flag,           \* local of prideavatar and image
    image_bytes,    \* local: the source image
    file_name,      \* local: the attachment name
    file,           \* local: the result of the offloaded call
    real_sink,      \* the calls Context.send received (messages delivered)
    fake_calls,     \* the calls the stand-in received, with what it returned
    executor_calls, \* the calls submitted to _EXECUTOR
    fetch_calls,    \* the member fetches issued, with the platform's answers
    http_gets,      \* the URLs requested, with the HTTP session's answers
    log,            \* the log records written
    requests,       \* the ids of the concurrent invocations
    stalled,        \* the invocations whose platform call never returns
    hung,           \* the invocations whose effect computation never ends
    faulty,         \* the invocations whose effect computation raises
    r_pc,           \* position of each concurrent invocation
    work_queue,     \* the work items _EXECUTOR has queued, oldest first
    workers,        \* the work items _EXECUTOR's workers are running
    r_file_name,    \* the file name each invocation computed
    r_file,         \* what in_executor returned to each invocation
    r_reply         \* the reply each invocation has sent

vars == <<pc, ret_pc, cmd, outcome, exc, author, colours, option, pixels, url,
          target, ctx_send, send_message, member, egg, flag, image_bytes,
          file_name, file, real_sink, fake_calls, executor_calls, fetch_calls,
          http_gets, log, requests, stalled, hung, faulty, r_pc, work_queue,
          workers, r_file_name, r_file, r_reply>>

\* one invocation followed step by step
handler_vars == <<pc, ret_pc, cmd, outcome, exc, author, colours, option, pixels,
                  url, target, ctx_send, send_message, member, egg, flag,
                  image_bytes, file_name, file, real_sink, fake_calls,
                  executor_calls, fetch_calls, http_gets, log>>
\* the concurrent invocations and the executor they share
pool_vars == <<requests, stalled, hung, faulty, r_pc, work_queue, workers,
               r_file_name, r_file, r_reply>>

args == <<author, colours, option, pixels, url, target>>
locals == <<send_message, member, egg, flag, image_bytes, file_name, file>>
effects == <<real_sink, fake_calls, executor_calls, fetch_calls, http_gets, log>>

\* no concurrent invocations are under study
PoolIdle ==
    /\ requests = {}
    /\ stalled = {}
    /\ hung = {}
    /\ faulty = {}
    /\ r_pc = <<>>
    /\ work_queue = <<>>
    /\ workers = {}
    /\ r_file_name = <<>>
    /\ r_file = <<>>
    /\ r_reply = <<>>

\* no invocation has been dispatched yet
HandlerIdle ==
    /\ pc = "idle"
    /\ ret_pc = "none"
    /\ cmd = "none"
    /\ outcome = "running"
    /\ exc = None
    /\ author = None
    /\ colours = <<>>
    /\ option = <<>>
    /\ pixels = 0
    /\ url = "none"
    /\ target = None
    /\ ctx_send = "Context.send"
    /\ send_message = "unset"
    /\ member = None
    /\ egg = None
    /\ flag = None
    /\ image_bytes = <<>>
    /\ file_name = <<>>
    /\ file = None
    /\ real_sink = <<>>
    /\ fake_calls = <<>>
    /\ executor_calls = <<>>
    /\ fetch_calls = <<>>
    /\ http_gets = <<>>
    /\ log = <<>>

Init == PoolIdle /\ HandlerIdle

(***************************************************************************)
(* Sending.  A call of a send function is its positional arguments and     *)
(* the file and embed keywords.                                            *)
(***************************************************************************)
Call(positional, f, e) == [args |-> positional, file |-> f, embed |-> e]
Embed(image, description) == [t |-> "Embed", image |-> image, description |-> description]

\* the local function `send` of avatareasterify: the capturing stand-in
send(call) == IF call.args # <<>> THEN call.args[1] ELSE None

\* await fn(...) for fn one of the two send functions: the real sink and
\* the record of stand-in calls afterwards, and the value returned
SendVia(fn, call) ==
    IF fn = "send"
    THEN [sink |-> real_sink,
          fake |-> Append(fake_calls, [call |-> call, ret |-> send(call)]),
          ret |-> send(call)]
    ELSE [sink |-> Append(real_sink, call),
          fake |-> fake_calls,
          ret |-> MessageObj]

\* await ctx.send(...) as a step of a handler
CtxSend(call) ==
    /\ real_sink' = SendVia(ctx_send, call).sink
    /\ fake_calls' = SendVia(ctx_send, call).fake

\* the handler returns / raises
Return == pc' = "done" /\ outcome' = "returned" /\ exc' = None
Raise(e) == pc' = "done" /\ outcome' = "raised" /\ exc' = e

CouldNotGetMember == Call(<<PyStr("{Emojis.cross_mark} Could not get member info.")>>, None, None)
NoSuchFlag == Call(<<PyStr("I don't have that flag!")>>, None, None)
BadResponse == Call(<<PyStr("Bad response from provided URL!")>>, None, None)
\* the message invoke_help_command(ctx) delivers
HelpMessage == Call(<<PyStr("help text")>>, None, None)


(***************************************************************************)
(* The framework calls a handler with the arguments the user gave.         *)
(***************************************************************************)
Start(c, first) ==
    /\ pc = "idle"
    /\ cmd' = c
    /\ pc' = first
    /\ UNCHANGED <<ret_pc, outcome, exc, ctx_send, locals, effects>>
    /\ UNCHANGED pool_vars

\* if not ctx.invoked_subcommand: where the callback of the group goes.
\* Run by the framework before a subcommand it does nothing.
GroupCallback(invoked_subcommand, then) ==
    IF invoked_subcommand = None THEN "group_help" ELSE then

\* the group command called without a subcommand
InvokeAvatarModify ==
    /\ pc = "idle"
    /\ \E name \in DisplayNames :
           /\ Start("avatar_modify", GroupCallback(None, "done"))
           /\ author' = Author(name)
           /\ UNCHANGED <<colours, option, pixels, url, target>>

InvokeEightbit ==
    /\ pc = "idle"
    /\ \E name \in DisplayNames :
           /\ Start("8bitify", "eightbit_fetch")
           /\ author' = Author(name)
           /\ UNCHANGED <<colours, option, pixels, url, target>>

InvokeEasterify ==
    /\ pc = "idle"
    /\ \E name \in DisplayNames, cols \in ColourLists :
           /\ Start("avatareasterify", "easter_fetch")
           /\ author' = Author(name)
           /\ colours' = cols
           /\ UNCHANGED <<option, pixels, url, target>>

InvokePrideavatar ==
    /\ pc = "idle"
    /\ \E name \in DisplayNames, opt \in Options, px \in PixelInputs :
           /\ Start("prideavatar", "pride_validate")
           /\ author' = Author(name)
           /\ option' = opt
           /\ pixels' = px
           /\ UNCHANGED <<colours, url, target>>

InvokeImage ==
    /\ pc = "idle"
    /\ \E name \in DisplayNames, u \in Urls, opt \in Options, px \in PixelInputs :
           /\ Start("image", "image_validate")
           /\ author' = Author(name)
           /\ url' = u
           /\ option' = opt
           /\ pixels' = px
           /\ UNCHANGED <<colours, target>>

InvokeFlags ==
    /\ pc = "idle"
    /\ \E name \in DisplayNames :
           /\ Start("flags", "flags_send")
           /\ author' = Author(name)
           /\ UNCHANGED <<colours, option, pixels, url, target>>

InvokeSpookyavatar ==
    /\ pc = "idle"
    /\ \E name \in DisplayNames, tgt \in {None, OtherMember} :
           /\ Start("spookyavatar", "spooky_fetch")
           /\ author' = Author(name)
           /\ target' = tgt
           /\ UNCHANGED <<colours, option, pixels, url>>

\* await invoke_help_command(ctx), after which the group callback returns
GroupHelp ==
    /\ pc = "group_help"
    /\ CtxSend(HelpMessage)
    /\ Return
    /\ UNCHANGED <<ret_pc, cmd, args, ctx_send, locals, executor_calls,
                   fetch_calls, http_gets, log>>
    /\ UNCHANGED pool_vars

(***************************************************************************)
(* Steps shared by the handlers.                                           *)
(***************************************************************************)
\* FetchStep without the branch on `if not member`
FetchStep_NoCheck(user, absent, present) ==
    \E answer \in FetchAnswers(user) :
        LET r == _fetch_member(answer) IN
        /\ fetch_calls' = Append(fetch_calls, [id |-> user.id, answer |-> answer])
        /\ log' = log \o r.log
        /\ IF r.raised # None
           THEN Raise(r.raised) /\ UNCHANGED member
           ELSE /\ member' = r.ret
                /\ pc' = present
                /\ UNCHANGED <<outcome, exc>>
        /\ UNCHANGED <<ret_pc, cmd, args, ctx_send, send_message, egg, flag,
                       image_bytes, file_name, file, real_sink, fake_calls,
                       executor_calls, http_gets>>
        /\ UNCHANGED pool_vars

\* member = await self._fetch_member(user.id), then the branch on
\* `if not member`
FetchStep(user, absent, present) ==
    \E answer \in FetchAnswers(user) :
        LET r == _fetch_member(answer) IN
        /\ fetch_calls' = Append(fetch_calls, [id |-> user.id, answer |-> answer])
        /\ log' = log \o r.log
        /\ IF r.raised # None
           THEN Raise(r.raised) /\ UNCHANGED member
           ELSE /\ member' = r.ret
                /\ pc' = IF r.ret = None THEN absent ELSE present
                /\ UNCHANGED <<outcome, exc>>
        /\ UNCHANGED <<ret_pc, cmd, args, ctx_send, send_message, egg, flag,
                       image_bytes, file_name, file, real_sink, fake_calls,
                       executor_calls, http_gets>>
        /\ UNCHANGED pool_vars

\* await ctx.send(f"{Emojis.cross_mark} Could not get member info."); return
NoMemberStep ==
    /\ CtxSend(CouldNotGetMember)
    /\ Return
    /\ UNCHANGED <<ret_pc, cmd, args, ctx_send, locals, executor_calls,
                   fetch_calls, http_gets, log>>
    /\ UNCHANGED pool_vars

\* image_bytes = await member.avatar_url.read(): the CDN answers with a
\* body, which may be empty, or the read faults (the image was deleted
\* from the CDN)
ReadStep(next) ==
    /\ \/ \E body \in Bodies :
            /\ image_bytes' = body
            /\ pc' = next
            /\ UNCHANGED <<outcome, exc>>
       \/ Raise(Exc("NotFound", "avatar read")) /\ UNCHANGED image_bytes
    /\ UNCHANGED <<ret_pc, cmd, args, ctx_send, send_message, member, egg,
                   flag, file_name, file, effects>>
    /\ UNCHANGED pool_vars

\* in_executor(func, *args) up to its await: the trace record and the
\* submission to _EXECUTOR
in_executor(call, resume) ==
    /\ log' = Append(log, [level |-> "TRACE", msg |-> "Running in an executor"])
    /\ executor_calls' = Append(executor_calls, call)
    /\ pc' = "in_executor"
    /\ ret_pc' = resume

\* PfpEffects.apply_effect(image_bytes, effect, filename, *args): the file
\* named filename that holds the transformed image
apply_effect(call) == File(call.filename)

\* ExecutorReturn submitting the call again when the worker faulted
ExecutorReturn_Retry ==
    /\ pc = "in_executor"
    /\ \E worker \in {"result", "fault"} :
        LET call == executor_calls[Len(executor_calls)] IN
        IF worker = "result"
        THEN /\ file' = apply_effect(call)
             /\ pc' = ret_pc
             /\ UNCHANGED <<outcome, exc, executor_calls>>
        ELSE /\ executor_calls' = Append(executor_calls, call)
             /\ UNCHANGED <<pc, outcome, exc, file>>
    /\ UNCHANGED <<ret_pc, cmd, args, ctx_send, send_message, member, egg, flag,
                   image_bytes, file_name, real_sink, fake_calls, fetch_calls,
                   http_gets, log>>
    /\ UNCHANGED pool_vars

\* await loop.run_in_executor(...): the worker has run the call; its
\* result, or the fault it raised, reaches the awaiting handler
ExecutorReturn ==
    /\ pc = "in_executor"
    /\ \E worker \in {"result", "fault"} :
        LET call == executor_calls[Len(executor_calls)] IN
        IF worker = "result"
        THEN /\ file' = apply_effect(call)
             /\ pc' = ret_pc
             /\ UNCHANGED <<outcome, exc>>
        ELSE Raise(Exc("EffectError", "")) /\ UNCHANGED file
    /\ UNCHANGED <<ret_pc, cmd, args, ctx_send, send_message, member, egg, flag,
                   image_bytes, file_name, effects>>
    /\ UNCHANGED pool_vars

EffectCall(bytes, effect, name, extra) ==
    [func |-> "PfpEffects.apply_effect", image_bytes |-> bytes,
     effect |-> effect, filename |-> name, extra |-> extra]

\* OffloadStep with the file name left unsanitized
OffloadStep_RawName(tag, name, effect, extra, resume) ==
    /\ file_name' = FILENAME_STRING(tag, name)
    /\ in_executor(EffectCall(image_bytes, effect, file_name', extra), resume)
    /\ UNCHANGED <<cmd, outcome, exc, args, ctx_send, send_message, member, egg,
                   flag, image_bytes, file, real_sink, fake_calls, fetch_calls,
                   http_gets>>
    /\ UNCHANGED pool_vars

\* the handler computes the file name and offloads the effect
OffloadStep(tag, name, effect, extra, resume) ==
    /\ file_name' = file_safe_name(tag, name)
    /\ in_executor(EffectCall(image_bytes, effect, file_name', extra), resume)
    /\ UNCHANGED <<cmd, outcome, exc, args, ctx_send, send_message, member, egg,
                   flag, image_bytes, file, real_sink, fake_calls, fetch_calls,
                   http_gets>>
    /\ UNCHANGED pool_vars

\* embed.set_image(url=f"attachment://{file_name}");
\* await ctx.send(file=file, embed=embed), after which the handler returns
ReplyStep(description) ==
    /\ CtxSend(Call(<<>>, file, Embed(file_name, description)))
    /\ Return
    /\ UNCHANGED <<ret_pc, cmd, args, ctx_send, locals, executor_calls,
                   fetch_calls, http_gets, log>>
    /\ UNCHANGED pool_vars

(***************************************************************************)
(* eightbit_command                                                        *)
(***************************************************************************)
EightbitFetch == pc = "eightbit_fetch" /\ FetchStep(author, "eightbit_no_member", "eightbit_read")
EightbitNoMember == pc = "eightbit_no_member" /\ NoMemberStep
EightbitRead == pc = "eightbit_read" /\ ReadStep("eightbit_offload")
EightbitOffload ==
    /\ pc = "eightbit_offload"
    /\ OffloadStep(EightbitTag, member.display_name, "eight_bitify_effect", <<>>,
                   "eightbit_reply")
EightbitReply == pc = "eightbit_reply" /\ ReplyStep("Your 8-bit avatar")

(***************************************************************************)
(* spookyavatar                                                            *)
(***************************************************************************)
SpookyFetch ==
    /\ pc = "spooky_fetch"
    /\ FetchStep(IF target = None THEN author ELSE target,
                 "spooky_no_member", "spooky_read")
SpookyNoMember == pc = "spooky_no_member" /\ NoMemberStep
SpookyRead == pc = "spooky_read" /\ ReadStep("spooky_offload")
SpookyOffload ==
    /\ pc = "spooky_offload"
    /\ OffloadStep(SpookyTag, member.display_name, "get_random_effect", <<>>,
                   "spooky_reply")
SpookyReply == pc = "spooky_reply" /\ ReplyStep("Is this you or am I just really paranoid?")


(***************************************************************************)
(* avatareasterify                                                         *)
(***************************************************************************)
\* what the delegated command may say when it rejects its colours
EggErrorTexts == {"You must include at least 2 colours!", "Sorry, I don't know this colour"}

\* the eggdecorate command, run with ctx.send bound to fn.  It signals a
\* failure by `return await ctx.send(text)`, a success by sending its
\* attachment without text and returning the artifact, and it may fault.
eggdecorate(fn, cols, how, text) ==
    CASE how = "text" ->
            LET s == SendVia(fn, Call(<<PyStr(text)>>, None, None))
            IN  [sink |-> s.sink, fake |-> s.fake, ret |-> s.ret, raised |-> None]
      [] how = "artifact" ->
            LET s == SendVia(fn, Call(<<>>, File(<<"e","g","g",".","p","n","g">>),
                                      Embed(<<"e","g","g",".","p","n","g">>, "Your Colourful Easter Egg")))
            IN  [sink |-> s.sink, fake |-> s.fake, ret |-> Image(cols), raised |-> None]
      [] OTHER ->
            [sink |-> real_sink, fake |-> fake_calls, ret |-> None,
             raised |-> Exc("EggDecorateError", "")]

EasterFetch == pc = "easter_fetch" /\ FetchStep(author, "easter_no_member", "easter_delegate")
EasterNoMember == pc = "easter_no_member" /\ NoMemberStep

\* EasterSubstitute without `ctx.send = send`
EasterSubstitute_NoSwap ==
    /\ pc = "easter_delegate"
    /\ egg' = None
    /\ IF colours # <<>>
       THEN /\ send_message' = ctx_send
            /\ UNCHANGED ctx_send
            /\ pc' = "easter_invoke"
       ELSE /\ UNCHANGED <<send_message, ctx_send>>
            /\ pc' = "easter_read"
    /\ UNCHANGED <<ret_pc, cmd, outcome, exc, args, member, flag, image_bytes,
                   file_name, file, effects>>
    /\ UNCHANGED pool_vars

\* egg = None; if colours: send_message = ctx.send; ctx.send = send
EasterSubstitute ==
    /\ pc = "easter_delegate"
    /\ egg' = None
    /\ IF colours # <<>>
       THEN /\ send_message' = ctx_send
            /\ ctx_send' = "send"
            /\ pc' = "easter_invoke"
       ELSE /\ UNCHANGED <<send_message, ctx_send>>
            /\ pc' = "easter_read"
    /\ UNCHANGED <<ret_pc, cmd, outcome, exc, args, member, flag, image_bytes,
                   file_name, file, effects>>
    /\ UNCHANGED pool_vars

\* egg = await ctx.invoke(self.bot.get_command("eggdecorate"), *colours)
EasterInvoke ==
    /\ pc = "easter_invoke"
    /\ \E how \in {"text", "artifact", "fault"}, text \in EggErrorTexts :
        LET r == eggdecorate(ctx_send, colours, how, text) IN
        /\ real_sink' = r.sink
        /\ fake_calls' = r.fake
        /\ IF r.raised # None
           THEN Raise(r.raised) /\ UNCHANGED egg
           ELSE /\ egg' = r.ret
                /\ pc' = "easter_captured"
                /\ UNCHANGED <<outcome, exc>>
    /\ UNCHANGED <<ret_pc, cmd, args, ctx_send, send_message, member, flag,
                   image_bytes, file_name, file, executor_calls, fetch_calls,
                   http_gets, log>>
    /\ UNCHANGED pool_vars

\* EasterCaptured relaying the text with ctx.send instead of send_message
EasterCaptured_RelayViaCtx ==
    /\ pc = "easter_captured"
    /\ IF IsStr(egg)
       THEN /\ CtxSend(Call(<<egg>>, None, None))
            /\ Return
            /\ UNCHANGED ctx_send
       ELSE /\ ctx_send' = send_message
            /\ pc' = "easter_read"
            /\ UNCHANGED <<outcome, exc, real_sink, fake_calls>>
    /\ UNCHANGED <<ret_pc, cmd, args, locals, executor_calls, fetch_calls,
                   http_gets, log>>
    /\ UNCHANGED pool_vars

\* EasterCaptured without `ctx.send = send_message`
EasterCaptured_NoRestore ==
    /\ pc = "easter_captured"
    /\ IF IsStr(egg)
       THEN /\ real_sink' = SendVia(send_message, Call(<<egg>>, None, None)).sink
            /\ fake_calls' = SendVia(send_message, Call(<<egg>>, None, None)).fake
            /\ Return
       ELSE /\ pc' = "easter_read"
            /\ UNCHANGED <<outcome, exc, real_sink, fake_calls>>
    /\ UNCHANGED <<ret_pc, cmd, args, ctx_send, locals, executor_calls,
                   fetch_calls, http_gets, log>>
    /\ UNCHANGED pool_vars

\* if isinstance(egg, str): await send_message(egg); return
\* ctx.send = send_message
EasterCaptured ==
    /\ pc = "easter_captured"
    /\ IF IsStr(egg)
       THEN /\ real_sink' = SendVia(send_message, Call(<<egg>>, None, None)).sink
            /\ fake_calls' = SendVia(send_message, Call(<<egg>>, None, None)).fake
            /\ Return
            /\ UNCHANGED ctx_send
       ELSE /\ ctx_send' = send_message
            /\ pc' = "easter_read"
            /\ UNCHANGED <<outcome, exc, real_sink, fake_calls>>
    /\ UNCHANGED <<ret_pc, cmd, args, locals, executor_calls, fetch_calls,
                   http_gets, log>>
    /\ UNCHANGED pool_vars

EasterRead == pc = "easter_read" /\ ReadStep("easter_offload")
EasterOffload ==
    /\ pc = "easter_offload"
    /\ OffloadStep(EasterTag, member.display_name, "easterify_effect", <<egg>>,
                   "easter_reply")
EasterReply == pc = "easter_reply" /\ ReplyStep("Here is your lovely avatar")

(***************************************************************************)
(* prideavatar, image, send_pride_image, flags                             *)
(***************************************************************************)
\* ValidateStep without the branch on `if flag is None`
ValidateStep_NoCheck(absent, present) ==
    /\ option' = Lower(option)
    /\ pixels' = ClampPixels(pixels)
    /\ flag' = DictGet(GENDER_OPTIONS, option')
    /\ pc' = present
    /\ UNCHANGED <<ret_pc, cmd, outcome, exc, author, colours, url, target,
                   ctx_send, send_message, member, egg, image_bytes, file_name,
                   file, effects>>
    /\ UNCHANGED pool_vars

\* option = option.lower(); pixels = max(0, min(512, pixels));
\* flag = GENDER_OPTIONS.get(option); if flag is None: ...
ValidateStep(absent, present) ==
    /\ option' = Lower(option)
    /\ pixels' = ClampPixels(pixels)
    /\ flag' = DictGet(GENDER_OPTIONS, option')
    /\ pc' = IF flag' = None THEN absent ELSE present
    /\ UNCHANGED <<ret_pc, cmd, outcome, exc, author, colours, url, target,
                   ctx_send, send_message, member, egg, image_bytes, file_name,
                   file, effects>>
    /\ UNCHANGED pool_vars

\* await ctx.send("I don't have that flag!"); return
NoFlagStep ==
    /\ CtxSend(NoSuchFlag)
    /\ Return
    /\ UNCHANGED <<ret_pc, cmd, args, ctx_send, locals, executor_calls,
                   fetch_calls, http_gets, log>>
    /\ UNCHANGED pool_vars

PrideValidate == pc = "pride_validate" /\ ValidateStep("pride_no_flag", "pride_fetch")
PrideNoFlag == pc = "pride_no_flag" /\ NoFlagStep
PrideFetch == pc = "pride_fetch" /\ FetchStep(author, "pride_no_member", "pride_read")
PrideNoMember == pc = "pride_no_member" /\ NoMemberStep
PrideRead == pc = "pride_read" /\ ReadStep("send_pride_image")

ImageValidate == pc = "image_validate" /\ ValidateStep("image_no_flag", "image_get")
ImageNoFlag == pc = "image_no_flag" /\ NoFlagStep

\* what the HTTP session answers to get(url): a malformed URL is refused
\* with InvalidURL; otherwise the connection fails, or times out, or a
\* response arrives with a status and a body
HttpAnswers(u) ==
    IF ~WellFormed(u)
    THEN {[t |-> "exc", cls |-> "InvalidURL", status |-> 0, body |-> <<>>]}
    ELSE {[t |-> "exc", cls |-> c, status |-> 0, body |-> <<>>] :
             c \in {"ClientConnectorError", "TimeoutError"}}
         \cup {[t |-> "response", cls |-> "", status |-> st, body |-> b] :
                  st \in {HttpOk, 404}, b \in Bodies}

\* the two except clauses of image: the fault that leaves the try block
ImageExcept(cls, msg) ==
    CASE cls = "ClientConnectorError" -> Exc("BadArgument", "Cannot connect to provided URL!")
      [] cls = "InvalidURL" -> Exc("BadArgument", "Invalid URL!")
      [] OTHER -> Exc(cls, msg)

\* the faults of response.read(): the connection is lost or times out
\* while the body is read
ReadFaults == {"ClientPayloadError", "TimeoutError"}

\* ImageGet without the check of response.status
ImageGet_NoStatusCheck ==
    /\ pc = "image_get"
    /\ \E answer \in HttpAnswers(url) :
        /\ http_gets' = Append(http_gets, [url |-> url, answer |-> answer])
        /\ IF answer.t = "response"
           THEN /\ pc' = "image_read"
                /\ UNCHANGED <<outcome, exc>>
           ELSE Raise(ImageExcept(answer.cls, ""))
    /\ UNCHANGED <<ret_pc, cmd, args, ctx_send, send_message, member, egg, flag,
                   image_bytes, file_name, file, real_sink, fake_calls,
                   executor_calls, fetch_calls, log>>
    /\ UNCHANGED pool_vars

\* async with self.bot.http_session.get(url) as response: the answer
\* arrives; if response.status != 200 the handler goes on to the "Bad
\* response" message, otherwise to response.read(); a fault passes the two
\* except clauses
ImageGet ==
    /\ pc = "image_get"
    /\ \E answer \in HttpAnswers(url) :
        /\ http_gets' = Append(http_gets, [url |-> url, answer |-> answer])
        /\ IF answer.t = "response"
           THEN /\ pc' = IF answer.status # HttpOk THEN "image_bad_response"
                         ELSE "image_read"
                /\ UNCHANGED <<outcome, exc>>
           ELSE Raise(ImageExcept(answer.cls, ""))
    /\ UNCHANGED <<ret_pc, cmd, args, ctx_send, send_message, member, egg, flag,
                   image_bytes, file_name, file, real_sink, fake_calls,
                   executor_calls, fetch_calls, log>>
    /\ UNCHANGED pool_vars

\* image_bytes = await response.read(): the body of the response arrives,
\* or the read faults, and the fault passes the two except clauses
ImageRead ==
    /\ pc = "image_read"
    /\ \/ /\ image_bytes' = http_gets[Len(http_gets)].answer.body
          /\ pc' = "send_pride_image"
          /\ UNCHANGED <<outcome, exc>>
       \/ \E c \in ReadFaults :
            /\ Raise(ImageExcept(c, "read"))
            /\ UNCHANGED image_bytes
    /\ UNCHANGED <<ret_pc, cmd, args, ctx_send, send_message, member, egg, flag,
                   file_name, file, effects>>
    /\ UNCHANGED pool_vars

\* await ctx.send("Bad response from provided URL!"); return
ImageBadResponse ==
    /\ pc = "image_bad_response"
    /\ CtxSend(BadResponse)
    /\ Return
    /\ UNCHANGED <<ret_pc, cmd, args, ctx_send, locals, executor_calls,
                   fetch_calls, http_gets, log>>
    /\ UNCHANGED pool_vars

\* send_pride_image, called last by prideavatar and by image
SendPrideOffload ==
    /\ pc = "send_pride_image"
    /\ OffloadStep(PrideTag, author.display_name, "pridify_effect",
                   <<pixels, flag>>, "send_pride_reply")
SendPrideReply == pc = "send_pride_reply" /\ ReplyStep("Here is your lovely avatar")

\* choices = sorted(set(GENDER_OPTIONS.values())); await ctx.send(embed=embed)
FlagsSend ==
    /\ pc = "flags_send"
    /\ CtxSend(Call(<<>>, None,
                    Embed(<<>>, {GENDER_OPTIONS[k] : k \in DOMAIN GENDER_OPTIONS})))
    /\ Return
    /\ UNCHANGED <<ret_pc, cmd, args, ctx_send, locals, executor_calls,
                   fetch_calls, http_gets, log>>
    /\ UNCHANGED pool_vars

(***************************************************************************)
(* The specification.                                                      *)
(***************************************************************************)
Next ==
    \/ InvokeAvatarModify \/ GroupHelp
    \/ InvokeEightbit \/ InvokeEasterify \/ InvokePrideavatar \/ InvokeImage
    \/ InvokeFlags \/ InvokeSpookyavatar
    \/ EightbitFetch \/ EightbitNoMember \/ EightbitRead \/ EightbitOffload
    \/ EightbitReply
    \/ EasterFetch \/ EasterNoMember \/ EasterSubstitute \/ EasterInvoke
    \/ EasterCaptured \/ EasterRead \/ EasterOffload \/ EasterReply
    \/ PrideValidate \/ PrideNoFlag \/ PrideFetch \/ PrideNoMember \/ PrideRead
    \/ ImageValidate \/ ImageNoFlag \/ ImageGet \/ ImageRead \/ ImageBadResponse
    \/ SendPrideOffload \/ SendPrideReply
    \/ FlagsSend
    \/ SpookyFetch \/ SpookyNoMember \/ SpookyRead \/ SpookyOffload \/ SpookyReply
    \/ ExecutorReturn

Spec == Init /\ [][Next]_vars


(***************************************************************************)
(* Concurrent invocations sharing _EXECUTOR.  Each one is a spookyavatar   *)
(* invocation whose platform calls succeed: it awaits the platform, offloads*)
(* its effect through in_executor and replies with the file it was given.  *)
(* The invocations are numbered in the order in which they reach           *)
(* in_executor.                                                            *)
(***************************************************************************)
MaxRequests == 3
MaxExtra == 1
\* _EXECUTOR = ThreadPoolExecutor(10)
ExecutorWorkers == 10

DigitChar(d) == <<"0","1","2","3","4","5","6","7","8","9">>[d + 1]

\* str(n) for a natural number n
RECURSIVE Decimal(_)
Decimal(n) == IF n < 10 THEN <<DigitChar(n)>>
              ELSE Decimal(n \div 10) \o <<DigitChar(n % 10)>>

\* the work item ThreadPoolExecutor.submit queues: the call together with
\* the future of the invocation that awaits it
WorkItem(i, call) == [caller |-> i, call |-> call]

\* what running a work item produces: the effect's file, or the fault the
\* effect raises
Computed(item) == IF item.caller \in faulty THEN Exc("EffectError", "")
                  ELSE apply_effect(item.call)

PoolStart(ids) ==
    /\ requests = ids
    /\ r_pc = [i \in ids |-> "platform"]
    /\ work_queue = <<>>
    /\ workers = {}
    /\ r_file_name = [i \in ids |-> <<>>]
    /\ r_file = [i \in ids |-> None]
    /\ r_reply = [i \in ids |-> None]

\* the platform calls of invocation i have returned and it is the next one
\* to reach in_executor
SubmitReady(i) ==
    /\ r_pc[i] = "platform"
    /\ i \notin stalled
    /\ \A j \in requests : j < i => (r_pc[j] # "platform" \/ j \in stalled)

\* PoolSubmit dropping the call when every worker is busy
PoolSubmit_DropWhenBusy(i) ==
    /\ SubmitReady(i)
    /\ r_file_name' = [r_file_name EXCEPT ![i] = file_safe_name(SpookyTag, Decimal(i))]
    /\ work_queue' = IF Cardinality(workers) >= ExecutorWorkers THEN work_queue
                     ELSE Append(work_queue,
                                 WorkItem(i, EffectCall(<<0>>, "get_random_effect",
                                                        r_file_name'[i], <<>>)))
    /\ r_pc' = [r_pc EXCEPT ![i] = "in_executor"]
    /\ UNCHANGED <<requests, stalled, hung, faulty, workers, r_file, r_reply>>
    /\ UNCHANGED handler_vars

\* PoolSubmit running the call on the event loop: nothing else is
\* dispatched while a call is pending
PoolSubmit_Blocking(i) ==
    /\ SubmitReady(i)
    /\ \A j \in requests : r_pc[j] # "in_executor"
    /\ r_file_name' = [r_file_name EXCEPT ![i] = file_safe_name(SpookyTag, Decimal(i))]
    /\ work_queue' = Append(work_queue,
                            WorkItem(i, EffectCall(<<0>>, "get_random_effect",
                                                   r_file_name'[i], <<>>)))
    /\ r_pc' = [r_pc EXCEPT ![i] = "in_executor"]
    /\ UNCHANGED <<requests, stalled, hung, faulty, workers, r_file, r_reply>>
    /\ UNCHANGED handler_vars

\* the platform calls of invocation i have returned: the member's display
\* name is the numeral of i and the avatar read is one byte long.  The
\* handler computes the file name and reaches in_executor, which submits
\* the call to _EXECUTOR and awaits the future
PoolSubmit(i) ==
    /\ SubmitReady(i)
    /\ r_file_name' = [r_file_name EXCEPT ![i] = file_safe_name(SpookyTag, Decimal(i))]
    /\ work_queue' = Append(work_queue,
                            WorkItem(i, EffectCall(<<0>>, "get_random_effect",
                                                   r_file_name'[i], <<>>)))
    /\ r_pc' = [r_pc EXCEPT ![i] = "in_executor"]
    /\ UNCHANGED <<requests, stalled, hung, faulty, workers, r_file, r_reply>>
    /\ UNCHANGED handler_vars

\* WorkerStart without the limit on the number of workers
WorkerStart_NoLimit ==
    /\ work_queue # <<>>
    /\ workers' = workers \cup {Head(work_queue)}
    /\ work_queue' = Tail(work_queue)
    /\ UNCHANGED <<requests, stalled, hung, faulty, r_pc, r_file_name, r_file,
                   r_reply>>
    /\ UNCHANGED handler_vars

\* WorkerStart of an executor that has a single worker
WorkerStart_SingleWorker ==
    /\ work_queue # <<>>
    /\ Cardinality(workers) < 1
    /\ workers' = workers \cup {Head(work_queue)}
    /\ work_queue' = Tail(work_queue)
    /\ UNCHANGED <<requests, stalled, hung, faulty, r_pc, r_file_name, r_file,
                   r_reply>>
    /\ UNCHANGED handler_vars

\* a worker of _EXECUTOR takes the oldest queued work item; the executor
\* never has more than ExecutorWorkers workers
WorkerStart ==
    /\ work_queue # <<>>
    /\ Cardinality(workers) < ExecutorWorkers
    /\ workers' = workers \cup {Head(work_queue)}
    /\ work_queue' = Tail(work_queue)
    /\ UNCHANGED <<requests, stalled, hung, faulty, r_pc, r_file_name, r_file,
                   r_reply>>
    /\ UNCHANGED handler_vars

\* WorkerFinish handing the outcome to whichever invocation is awaiting
WorkerFinish_Misdeliver ==
    /\ \E item \in workers :
        /\ item.caller \notin hung
        /\ workers' = workers \ {item}
        /\ \E j \in requests :
            /\ r_pc[j] = "in_executor"
            /\ r_file' = [r_file EXCEPT ![j] = Computed(item)]
            /\ r_pc' = [r_pc EXCEPT ![j] =
                            IF item.caller \in faulty THEN "raised" ELSE "reply"]
    /\ UNCHANGED <<requests, stalled, hung, faulty, work_queue, r_file_name,
                   r_reply>>
    /\ UNCHANGED handler_vars

\* a worker finishes its call and sets the future: the awaiting invocation
\* resumes with the result, or the fault is raised in it
WorkerFinish ==
    /\ \E item \in workers :
        /\ item.caller \notin hung
        /\ workers' = workers \ {item}
        /\ r_file' = [r_file EXCEPT ![item.caller] = Computed(item)]
        /\ r_pc' = [r_pc EXCEPT ![item.caller] =
                        IF item.caller \in faulty THEN "raised" ELSE "reply"]
    /\ UNCHANGED <<requests, stalled, hung, faulty, work_queue, r_file_name,
                   r_reply>>
    /\ UNCHANGED handler_vars

\* await ctx.send(file=file, embed=embed) of invocation i
PoolReply(i) ==
    /\ r_pc[i] = "reply"
    /\ r_reply' = [r_reply EXCEPT ![i] =
                      Call(<<>>, r_file[i],
                           Embed(r_file_name[i],
                                 "Is this you or am I just really paranoid?"))]
    /\ r_pc' = [r_pc EXCEPT ![i] = "done"]
    /\ UNCHANGED <<requests, stalled, hung, faulty, work_queue, workers,
                   r_file_name, r_file>>
    /\ UNCHANGED handler_vars

PoolNext ==
    \/ \E i \in requests : PoolSubmit(i)
    \/ WorkerStart
    \/ WorkerFinish
    \/ \E i \in requests : PoolReply(i)

\* a few invocations, any of which may stall, hang or fault
PoolInit ==
    /\ HandlerIdle
    /\ PoolStart(1..MaxRequests)
    /\ stalled \in SUBSET (1..MaxRequests)
    /\ hung \in SUBSET (1..MaxRequests)
    /\ faulty \in SUBSET (1..MaxRequests)

PoolSpec == PoolInit /\ [][PoolNext]_vars

\* more invocations than _EXECUTOR has workers: nothing hangs; or the
\* platform call of one invocation and the computations of all but one
\* worker's worth of the others hang; or a worker's worth of computations
\* hang
HangChoices ==
    { [stalled |-> {}, hung |-> {}],
      [stalled |-> {2}, hung |-> 1..(ExecutorWorkers - 1)],
      [stalled |-> {}, hung |-> 1..(ExecutorWorkers - 1)],
      [stalled |-> {}, hung |-> 1..ExecutorWorkers] }

SaturatedInit ==
    /\ HandlerIdle
    /\ PoolStart(1..(ExecutorWorkers + MaxExtra))
    /\ \E h \in HangChoices : stalled = h.stalled /\ hung = h.hung
    /\ faulty = {}

\* the event loop keeps running ready coroutines and the worker threads
\* keep running: a step that can be taken is eventually taken
SaturatedSpec == SaturatedInit /\ [][PoolNext]_vars /\ WF_vars(PoolNext)



(***************************************************************************)
(* Properties.                                                             *)
(***************************************************************************)
Done == pc = "done"
Easterify == cmd = "avatareasterify"

\* C1: when avatareasterify, called with colours, has ended (by returning
\* the artifact path, by relaying captured error text, or by the fault of
\* the delegated invocation), ctx.send is the original output function
\* again, not the capturing stand-in.
C1_SendRestoredOnEveryExit ==
    (Easterify /\ Done) => ctx_send = "Context.send"

\* C2: during the delegated invocation of eggdecorate the real output sink
\* receives no call, and what the delegated command sends reaches the
\* stand-in, which returns its first positional argument, or None when
\* there is none.
C2_DelegationCaptured ==
    [][pc = "easter_invoke" =>
        /\ real_sink' = real_sink
        /\ pc' = "easter_captured" =>
            /\ Len(fake_calls') = Len(fake_calls) + 1
            /\ LET c == fake_calls'[Len(fake_calls')] IN
               c.ret = IF c.call.args # <<>> THEN c.call.args[1] ELSE None
      ]_vars

\* the delegated command has sent text, and the stand-in has captured it
C2_Witness ==
    /\ pc = "easter_captured"
    /\ Len(fake_calls) = 1
    /\ fake_calls[1].ret = PyStr("You must include at least 2 colours!")
    /\ real_sink = <<>>


\* C3: once the value captured from the delegated command is text, the
\* handler does nothing but relay it: it never reads the avatar or
\* offloads, and it ends by returning with exactly one message in the real
\* sink, the text the delegated command sent, and no image reply.
C3_TextRelayedThenAbort ==
    (Easterify /\ IsStr(egg)) =>
        /\ pc \in {"easter_captured", "done"}
        /\ executor_calls = <<>>
        /\ image_bytes = <<>>
        /\ file = None
        /\ Len(fake_calls) = 1
        /\ fake_calls[1].call.args = <<egg>>
        /\ pc = "easter_captured" => real_sink = <<>>
        /\ Done =>
            /\ outcome = "returned"
            /\ real_sink = <<Call(<<egg>>, None, None)>>

\* the captured error text has been relayed and the command has ended
C3_Witness ==
    /\ Easterify /\ Done
    /\ egg = PyStr("Sorry, I don't know this colour")
    /\ real_sink = <<Call(<<egg>>, None, None)>>

\* the positions of avatareasterify after the delegation
AfterDelegation == {"easter_read", "easter_offload", "in_executor", "easter_reply", "done"}

\* C4: when the delegated command has produced no text, avatareasterify
\* goes on with ctx.send restored: the captured artifact is the extra
\* argument of the one offload call, and the handler returns having sent
\* the image reply through the real sink, the stand-in having received
\* only the delegated command's call.
C4_ArtifactContinues ==
    (Easterify /\ colours # <<>> /\ member # None /\ ~IsStr(egg)
        /\ pc \in AfterDelegation /\ outcome # "raised") =>
        /\ ctx_send = "Context.send"
        /\ egg = Image(colours)
        /\ Len(fake_calls) = 1
        /\ Len(executor_calls) <= 1
        /\ pc \in {"in_executor", "easter_reply", "done"} =>
            /\ Len(executor_calls) = 1
            /\ executor_calls[1].extra = <<egg>>
        /\ pc # "done" => real_sink = <<>>
        /\ Done =>
            /\ real_sink = <<Call(<<>>, file, Embed(file_name, "Here is your lovely avatar"))>>
            /\ file = File(executor_calls[1].filename)

\* avatareasterify with colours has sent its image reply
C4_Witness ==
    /\ Easterify /\ Done /\ outcome = "returned"
    /\ colours # <<>>
    /\ egg = Image(colours)
    /\ Len(real_sink) = 1
    /\ real_sink[1].file = file
    /\ Len(executor_calls) = 1

\* _fetch_member has returned None to the handler
ResolvedNotFound == fetch_calls # <<>> /\ member = None /\ outcome # "raised"

\* C5: in every command that resolves a member, when _fetch_member returns
\* None the handler only sends the one "Could not get member info."
\* message and returns: no avatar is read, nothing is delegated, nothing
\* is offloaded and no image reply is sent.
C5_NotFoundAborts ==
    ResolvedNotFound =>
        /\ cmd \in {"8bitify", "avatareasterify", "prideavatar", "spookyavatar"}
        /\ pc \in {"eightbit_no_member", "easter_no_member", "pride_no_member",
                   "spooky_no_member", "done"}
        /\ executor_calls = <<>>
        /\ image_bytes = <<>>
        /\ fake_calls = <<>>
        /\ ctx_send = "Context.send"
        /\ Len(fetch_calls) = 1
        /\ pc # "done" => real_sink = <<>>
        /\ Done => outcome = "returned" /\ real_sink = <<CouldNotGetMember>>

\* each of the four commands has aborted after a member that was not found
C5_WitnessCommand(c) ==
    /\ cmd = c /\ Done /\ ResolvedNotFound
    /\ fetch_calls[1].answer.cls = "NotFound"
    /\ real_sink = <<CouldNotGetMember>>
C5_Witness == C5_WitnessCommand("prideavatar")


\* the records _fetch_member has logged
FetchLog == SelectSeq(log, LAMBDA r : r.level # "TRACE")
IsFault(a) == a.t = "exc"
IsHttpFault(a) == IsFault(a) /\ IsInstance(a, "HTTPException")

\* C6 as stated: _fetch_member never propagates a fault; whatever fault
\* the platform answers with, the caller gets None.
C6_NeverPropagates ==
    \A i \in 1..Len(fetch_calls) :
        IsFault(fetch_calls[i].answer) => (member = None /\ outcome # "raised")

\* C6 as amended: _fetch_member returns the member on success; returns
\* None with one DEBUG record when the platform says NotFound; returns
\* None with one ERROR record on any other discord.HTTPException; and lets
\* a fault that is no discord.HTTPException propagate to its caller,
\* unlogged.
C6_FetchOutcomes ==
    \A i \in 1..Len(fetch_calls) :
        LET a == fetch_calls[i].answer IN
        /\ ~IsFault(a) => (member = a /\ FetchLog = <<>>)
        /\ (IsFault(a) /\ IsInstance(a, "NotFound")) =>
            /\ member = None /\ outcome # "raised"
            /\ Len(FetchLog) = 1 /\ FetchLog[1].level = "DEBUG"
        /\ (IsHttpFault(a) /\ ~IsInstance(a, "NotFound")) =>
            /\ member = None /\ outcome # "raised"
            /\ Len(FetchLog) = 1 /\ FetchLog[1].level = "ERROR"
        /\ (IsFault(a) /\ ~IsHttpFault(a)) =>
            /\ Done /\ outcome = "raised" /\ exc = a
            /\ member = None /\ FetchLog = <<>>

\* a fault other than NotFound has been turned into None and logged as an
\* error
C6_Witness ==
    /\ pc = "spooky_no_member"
    /\ fetch_calls[1].answer.cls = "Forbidden"
    /\ member = None
    /\ FetchLog = <<[level |-> "ERROR", msg |-> "exception while retrieving"]>>

\* C7 as stated: whatever faults, the handler ends normally having sent
\* exactly one user-facing message.
C7_NothingBubbles ==
    Done => (outcome = "returned" /\ Len(real_sink) = 1)

\* C7 as amended: only a member-fetch fault of class discord.HTTPException
\* is resolved in the handler, into the one "Could not get member info."
\* message.  An unreachable or malformed URL ends the handler by raising
\* BadArgument; a member-fetch fault of another class, a fault of the
\* avatar read, of the read of the URL's body, of the delegated command or
\* of the offloaded computation leaves the handler as it is.  A handler that ends by raising has sent
\* nothing.
C7_FaultsAtBoundary ==
    Done =>
        /\ \A i \in 1..Len(fetch_calls) :
            LET a == fetch_calls[i].answer IN
            /\ IsHttpFault(a) =>
                (outcome = "returned" /\ real_sink = <<CouldNotGetMember>>)
            /\ (IsFault(a) /\ ~IsHttpFault(a)) => (outcome = "raised" /\ exc = a)
        /\ \A i \in 1..Len(http_gets) :
            LET a == http_gets[i].answer IN
            /\ (IsFault(a) /\ a.cls = "ClientConnectorError") =>
                (outcome = "raised" /\ exc = Exc("BadArgument", "Cannot connect to provided URL!"))
            /\ (IsFault(a) /\ a.cls = "InvalidURL") =>
                (outcome = "raised" /\ exc = Exc("BadArgument", "Invalid URL!"))
            /\ (IsFault(a) /\ a.cls = "TimeoutError") =>
                (outcome = "raised" /\ exc.cls = "TimeoutError")
        /\ outcome = "raised" =>
            /\ real_sink = <<>>
            /\ exc.cls \in {"OSError", "BadArgument", "TimeoutError", "NotFound",
                            "ClientPayloadError", "EggDecorateError", "EffectError"}
            /\ exc.cls = "ClientPayloadError" =>
                (cmd = "image" /\ Len(http_gets) = 1 /\ executor_calls = <<>>)
            /\ exc.cls = "EffectError" => (Len(executor_calls) = 1 /\ file = None)
            /\ exc.cls = "EggDecorateError" => (Easterify /\ executor_calls = <<>>)

\* the fault of an offloaded computation has left the handler
C7_Witness ==
    /\ Done /\ outcome = "raised"
    /\ exc.cls = "EffectError"
    /\ Len(executor_calls) = 1
    /\ real_sink = <<>>

\* the effect tag and the display name a command names its attachment by
EffectTag(c) ==
    CASE c = "8bitify" -> EightbitTag
      [] c = "avatareasterify" -> EasterTag
      [] c = "spookyavatar" -> SpookyTag
      [] OTHER -> PrideTag
NamedAfter(c) ==
    IF c \in {"prideavatar", "image"} THEN author.display_name ELSE member.display_name

\* the one reply carries the image the offload call produced
ImageReply ==
    /\ Len(executor_calls) = 1
    /\ executor_calls[1].filename = file_safe_name(EffectTag(cmd), NamedAfter(cmd))
    /\ real_sink[1].args = <<>>
    /\ real_sink[1].file = File(executor_calls[1].filename)
    /\ real_sink[1].embed.image = executor_calls[1].filename

\* C8 as stated: every invocation, on every path, has delivered exactly
\* one message when it ends, and on the success path that message carries
\* the attachment named by the sanitized file name given to the offload
\* call.
C8_ExactlyOneReply ==
    Done =>
        /\ Len(real_sink) = 1
        /\ executor_calls # <<>> => ImageReply

\* C8 as amended: nothing is delivered before the handler ends; a handler
\* that returns has delivered exactly one message; a handler that ends by
\* raising has delivered none; and after an offload call the one message
\* of a returning handler carries the attachment named by the sanitized
\* file name given to that call.
C8_OneReplyUnlessRaised ==
    /\ ~Done => real_sink = <<>>
    /\ (Done /\ outcome = "raised") => real_sink = <<>>
    /\ (Done /\ outcome = "returned") =>
        /\ Len(real_sink) = 1
        /\ IF executor_calls # <<>>
           THEN ImageReply
           ELSE real_sink[1].file = None

\* a command whose display name needs sanitizing has sent its image reply
C8_Witness ==
    /\ Done /\ outcome = "returned" /\ cmd = "spookyavatar"
    /\ member = OtherMember
    /\ Len(real_sink) = 1
    /\ real_sink[1].file = File(SpookyTag \o <<"_", "e", "_", "Z", ".", "p", "n", "g">>)

\* the flag-border commands
FlagBorder == cmd \in {"prideavatar", "image"}
Validated == FlagBorder /\ pc \notin {"idle", "pride_validate", "image_validate"}

\* C9: in both flag-border commands an option that, lower-cased, is no key
\* of GENDER_OPTIONS leads to the "I don't have that flag!" message and
\* nothing else: no member fetch, no URL fetch, no offload call.
C9_UnknownFlagAborts ==
    Validated =>
        /\ flag = None <=> option \notin DOMAIN GENDER_OPTIONS
        /\ flag = None =>
            /\ pc \in {"pride_no_flag", "image_no_flag", "done"}
            /\ fetch_calls = <<>>
            /\ http_gets = <<>>
            /\ executor_calls = <<>>
            /\ pc # "done" => real_sink = <<>>
            /\ Done => (outcome = "returned" /\ real_sink = <<NoSuchFlag>>)

\* the URL form has rejected an unknown flag
C9_Witness ==
    /\ cmd = "image" /\ Done
    /\ option = <<"n","o","t","_","a","_","f","l","a","g">>
    /\ flag = None
    /\ real_sink = <<NoSuchFlag>>

\* C10: in the image command a response whose status is not 200 leads to
\* the "Bad response from provided URL!" message, a connection failure and
\* a malformed URL to two different BadArgument faults, and in all three
\* cases nothing is offloaded.
C10_BadUrlAbortsBeforeOffload ==
    \A i \in 1..Len(http_gets) :
        LET a == http_gets[i].answer IN
        /\ (a.t = "response" /\ a.status # HttpOk) =>
            /\ pc \in {"image_bad_response", "done"}
            /\ executor_calls = <<>>
            /\ image_bytes = <<>>
            /\ Done => (outcome = "returned" /\ real_sink = <<BadResponse>>)
        /\ (IsFault(a) /\ a.cls = "ClientConnectorError") =>
            /\ Done /\ outcome = "raised"
            /\ exc = Exc("BadArgument", "Cannot connect to provided URL!")
            /\ executor_calls = <<>>
        /\ (IsFault(a) /\ a.cls = "InvalidURL") =>
            /\ Done /\ outcome = "raised"
            /\ exc = Exc("BadArgument", "Invalid URL!")
            /\ exc # Exc("BadArgument", "Cannot connect to provided URL!")
            /\ executor_calls = <<>>

\* a response with status 404 has been answered with the message
C10_Witness ==
    /\ cmd = "image" /\ Done
    /\ Len(http_gets) = 1
    /\ http_gets[1].answer.t = "response"
    /\ http_gets[1].answer.status = 404
    /\ real_sink = <<BadResponse>>
    /\ executor_calls = <<>>


\* C11: the validation step of both flag-border commands replaces the
\* thickness p by 0 when p < 0, by 512 when p > 512 and leaves it alone
\* otherwise, without ending the handler; the value is not touched again
\* and is the thickness handed to the offload call, where it lies in
\* 0..512.
C11_ThicknessClamped ==
    [][/\ pc \in {"pride_validate", "image_validate"} =>
            /\ pixels' = IF pixels < 0 THEN 0 ELSE IF pixels > 512 THEN 512 ELSE pixels
            /\ outcome' = "running"
            /\ pc' \in {"pride_no_flag", "image_no_flag"} <=> flag' = None
       /\ Validated => pixels' = pixels
       /\ pc = "send_pride_image" =>
            /\ pixels \in 0..512
            /\ Len(executor_calls') = 1
            /\ executor_calls'[1].extra = <<pixels, flag>>
      ]_vars

\* an offload call has been made with the thickness at its upper limit
C11_Witness ==
    /\ FlagBorder /\ pc = "in_executor"
    /\ executor_calls[1].extra[1] = 512


\* the characters the file name contract allows
SafeChars == AsciiLetters \cup Digits \cup {".", "_", "-"}
EndsWithPng(s) == Len(s) >= 4 /\ SubSeq(s, Len(s) - 3, Len(s)) = <<".", "p", "n", "g">>

\* C16: every file name a command computes ends in ".png" and consists of
\* letters, digits, ".", "_" and "-" only; in particular it holds no
\* space.
C16_SafeFilename ==
    file_name # <<>> =>
        /\ EndsWithPng(file_name)
        /\ \A i \in 1..Len(file_name) : file_name[i] \in SafeChars

\* C17: for a display name made of letters, digits, ".", "_", "-" and
\* spaces only, the file name is the effect tag, "_", the name with every
\* space replaced by "_", and ".png".
C17_SafeNamesKept ==
    LET n == NamedAfter(cmd) IN
    (file_name # <<>> /\ \A i \in 1..Len(n) : n[i] \in SafeChars \cup {" "}) =>
        file_name = EffectTag(cmd) \o <<"_">>
                    \o [i \in 1..Len(n) |-> IF n[i] = " " THEN "_" ELSE n[i]]
                    \o <<".", "p", "n", "g">>

\* the file name of a display name that holds a space and a dot
C17_Witness ==
    /\ cmd = "8bitify" /\ pc = "in_executor"
    /\ member.display_name = <<" ", ".">>
    /\ file_name = EightbitTag \o <<"_", "_", ".", ".", "p", "n", "g">>


\* C18: no call submitted to the executor carries empty source bytes,
\* whether the image came from the avatar or from a URL answered with 200.
C18_NonEmptySource ==
    \A i \in 1..Len(executor_calls) : executor_calls[i].image_bytes # <<>>

\* what a command has to have done before it offloads
ReadyToOffload ==
    /\ cmd \in {"8bitify", "avatareasterify", "prideavatar", "spookyavatar"} =>
        (Len(fetch_calls) = 1 /\ member # None)
    /\ FlagBorder => (flag # None /\ pixels \in 0..512)
    /\ cmd = "image" =>
        /\ Len(http_gets) = 1
        /\ http_gets[1].answer.t = "response"
        /\ http_gets[1].answer.status = 200
    /\ (Easterify /\ colours # <<>>) =>
        (Len(fake_calls) = 1 /\ egg = Image(colours) /\ ctx_send = "Context.send")

\* C19: an invocation fetches a member at most once, requests a URL at
\* most once and offloads at most once; a fetch or an offload that failed
\* is not repeated; and the offload call comes after the validation, the
\* identity resolution and the delegation, none of which happens again
\* once the call is made.
C19_LinearPipeline ==
    [][/\ Len(fetch_calls') <= 1
       /\ Len(http_gets') <= 1
       /\ Len(executor_calls') <= 1
       /\ fetch_calls # <<>> => fetch_calls' = fetch_calls
       /\ (executor_calls = <<>> /\ executor_calls' # <<>>) => ReadyToOffload
       /\ executor_calls # <<>> =>
            /\ UNCHANGED <<executor_calls, fetch_calls, http_gets, fake_calls>>
            /\ UNCHANGED <<member, flag, egg, option, pixels, ctx_send>>
      ]_vars

\* the offloaded computation has failed and was not submitted again
C19_Witness ==
    /\ Done /\ outcome = "raised"
    /\ exc.cls = "EffectError"
    /\ Len(executor_calls) = 1
    /\ Len(fetch_calls) = 1


(***************************************************************************)
(* Properties of the shared executor.                                      *)
(***************************************************************************)
Queued(i) == \E k \in 1..Len(work_queue) : work_queue[k].caller = i
Running(i) == \E item \in workers : item.caller = i
Submitted(i) == r_pc[i] # "platform"

\* nothing more can happen: no invocation is ready to submit, no worker
\* can start or finish a call and no invocation can reply
Quiescent ==
    /\ \A i \in requests : ~SubmitReady(i)
    /\ ~ENABLED WorkerStart
    /\ ~ENABLED WorkerFinish
    /\ ~ENABLED (\E i \in requests : PoolReply(i))

\* how far invocation i has come
RequestRank(i) ==
    CASE r_pc[i] = "platform" -> 0
      [] r_pc[i] = "in_executor" -> IF Queued(i) THEN 1 ELSE 2
      [] r_pc[i] = "reply" -> 3
      [] OTHER -> 4

\* every step moves one invocation forward and none backward, so no
\* behaviour takes steps forever: under the fairness of SaturatedSpec each
\* one reaches a quiescent state
EveryStepAdvances ==
    /\ \A i \in requests : RequestRank(i)' >= RequestRank(i)
    /\ \E i \in requests : RequestRank(i)' > RequestRank(i)

\* the outcome of invocation i's own fn(*args)
OwnOutcome(i) ==
    IF i \in faulty THEN Exc("EffectError", "")
    ELSE apply_effect(EffectCall(<<0>>, "get_random_effect",
                                 file_safe_name(SpookyTag, Decimal(i)), <<>>))

\* C12: at most ExecutorWorkers offloaded calls execute at once, over all
\* concurrent invocations; a call starts only by leaving the queue for a
\* free worker, and when it starts every call submitted before it has
\* already started (FIFO), so calls submitted to a busy pool wait.
C12_BoundedFifoPool ==
    [][/\ Cardinality(workers') <= ExecutorWorkers
       /\ \A i \in requests :
            (~Running(i) /\ Running(i)') =>
                /\ Queued(i) /\ ~Queued(i)'
                /\ Cardinality(workers) < ExecutorWorkers
                /\ \A j \in requests : (j < i /\ Submitted(j)) => ~Queued(j)
       /\ \A i \in requests :
            (~Submitted(i) /\ Submitted(i)') => (Queued(i)' /\ ~Running(i)')
      ]_vars

C12_Witness ==
    /\ Cardinality(workers) = ExecutorWorkers
    /\ work_queue # <<>>

\* C13: what in_executor hands an invocation is the outcome of that
\* invocation's own call: its own file when the effect returns, its own
\* fault when the effect raises, raised in that invocation and in no other;
\* the reply carries the invocation's own file.
C13_OwnOutcomeOnly ==
    \A i \in requests :
        /\ r_file[i] # None => r_file[i] = OwnOutcome(i)
        /\ r_pc[i] = "raised" <=> (i \in faulty /\ r_file[i] # None)
        /\ r_pc[i] \in {"reply", "done"} => (i \notin faulty /\ r_file[i] # None)
        /\ r_reply[i] # None <=> r_pc[i] = "done"
        /\ r_reply[i] # None => r_reply[i].file = OwnOutcome(i)

C13_Witness ==
    /\ faulty = {1}
    /\ r_pc[1] = "raised"
    /\ r_file[1] = Exc("EffectError", "")
    /\ r_pc[2] = "done"
    /\ r_reply[2].file = File(SpookyTag \o <<"_", "2", ".", "p", "n", "g">>)
    /\ Running(3)

\* C14: a pending offloaded call never holds back another invocation: an
\* invocation whose platform calls have returned can submit, a free worker
\* can take a queued call, a call whose effect ends can finish and an
\* invocation that has its file can reply, whatever calls are pending.
C14_LoopNotBlocked ==
    /\ \A i \in requests :
        /\ (/\ r_pc[i] = "platform" /\ i \notin stalled
            /\ \A j \in requests : (j < i /\ j \notin stalled) => Submitted(j))
               => ENABLED PoolSubmit(i)
        /\ r_pc[i] = "reply" => ENABLED PoolReply(i)
    /\ (work_queue # <<>> /\ Cardinality(workers) < ExecutorWorkers)
           => ENABLED WorkerStart
    /\ (\E item \in workers : item.caller \notin hung) => ENABLED WorkerFinish

\* the second invocation has replied while the first one's computation,
\* which does end, is still running
C14_Witness ==
    /\ 1 \notin hung
    /\ r_pc[1] = "in_executor"
    /\ Running(1)
    /\ r_pc[2] = "done"
    /\ r_reply[2] # None

\* the invocations whose own platform calls and computation terminate
Healthy == requests \ (hung \cup stalled)

\* C15 as stated: whatever hangs, every invocation whose own platform
\* calls and computation terminate has replied once nothing more can happen.
C15_HangStallsOnlyItself ==
    Quiescent => \A i \in Healthy : r_pc[i] = "done"

\* C15 amended: a hanging platform call holds back its own invocation only,
\* and a hanging computation its own invocation and one worker.  While
\* fewer than ExecutorWorkers computations hang, every step advances and
\* once nothing more can happen every healthy invocation has replied; once
\* ExecutorWorkers computations hang, the calls submitted after them stay
\* queued and their invocations never reply.
C15_HangsBelowPoolSize ==
    /\ [](Quiescent =>
            IF Cardinality(hung \ stalled) < ExecutorWorkers
            THEN \A i \in Healthy : r_pc[i] = "done"
            ELSE \A i \in Healthy : r_pc[i] = "in_executor" /\ Queued(i))
    /\ [][EveryStepAdvances]_vars

C15_Witness ==
    /\ Quiescent
    /\ stalled = {2}
    /\ r_pc[2] = "platform"
    /\ Cardinality(workers) = ExecutorWorkers - 2
    /\ \A item \in workers : item.caller \in hung
    /\ \A i \in Healthy : r_pc[i] = "done"

\* C20: when nothing hangs and more invocations than workers offload,
\* every step advances, and once nothing more can happen no call is left
\* in the queue or on a worker and every invocation has replied with its
\* own file.
C20_NoStarvation ==
    /\ []((hung = {} /\ stalled = {} /\ Quiescent) =>
            /\ work_queue = <<>>
            /\ workers = {}
            /\ \A i \in requests :
                /\ r_pc[i] = "done"
                /\ r_reply[i] # None
                /\ r_reply[i].file = OwnOutcome(i))
    /\ [][(hung = {} /\ stalled = {}) => EveryStepAdvances]_vars

C20_Witness ==
    /\ hung = {}
    /\ stalled = {}
    /\ Cardinality(requests) > ExecutorWorkers
    /\ Quiescent
    /\ \A i \in requests : r_pc[i] = "done"

====
